---- MODULE Spec2Model ----
(***************************************************************************)
(* Model of the statistical_inference library: the Student's t lookup      *)
(* table (src/src/distributions/t.rs), the F distribution's transform      *)
(* (src/src/distributions/f.rs), the categorical tests                     *)
(* (src/src/categorical.rs) and the numerical tests (src/src/numerical.rs).*)
(*                                                                         *)
(* The library is a set of pure functions.  A behaviour of the model is    *)
(* one call: Init draws the operation and its arguments, the operation's   *)
(* action runs the whole function and stores what it returned (or the      *)
(* panic that aborted it) in ret, and the distribution lookup it delegated *)
(* to in callee.                                                           *)
(*                                                                         *)
(* Numbers.  f64 values are modelled exactly, as integers in a fixed unit  *)
(* or as reduced fractions:                                                *)
(*   t and z statistics      thousandths          (T_UNIT)                 *)
(*   probabilities           ten-thousandths      (P_UNIT)                 *)
(*   proportions, chi-square, F, means    fractions [n, d]                 *)
(* Rounding of f64 arithmetic is not modelled; overflow past f64::MAX is,  *)
(* in the F distribution's transform.                                      *)
(***************************************************************************)
EXTENDS Integers, Sequences, FiniteSets, TLC

VARIABLES op, args, pc, ret, callee

vars == <<op, args, pc, ret, callee>>

(***************************************************************************)
(* Units and bounds                                                        *)
(***************************************************************************)
\* 1.000 in the unit of t statistics (the table is written to 3 decimals)
T_UNIT == 1000
\* 1.0 in the unit of probabilities (the smallest tail area is 0.0005)
P_UNIT == 10000

\* degrees of freedom past the table's last bucket that are tried
MaxDfBeyond == 2
\* statistics are probed at every critical value and this far around it
MaxOffset == 1
\* the most bins of a goodness-of-fit test
MaxBins == 3
\* the most cells (rows x columns) of a two-way table
MaxCells == 6
\* the most groups of an analysis of variance
MaxGroups == 3

Abs(x) == IF x < 0 THEN -x ELSE x

Ok(v) == [kind |-> "ok", v |-> v]
Panic(at) == [kind |-> "panic", at |-> at]
NoRet == [kind |-> "none"]
NoCall == [fn |-> "none"]

(***************************************************************************)
(* strict_num::NormalizedF64::new(x).unwrap(): a value in [0, 1] or a panic *)
(***************************************************************************)
NormalizedF64_new(x) ==
    IF 0 <= x /\ x <= P_UNIT THEN Ok(x) ELSE Panic("NormalizedF64::new")

(***************************************************************************)
(* distributions/normal.rs is not among the sources.  Z_SCORE_TABLE is     *)
(* modelled from the specification: one_sided_p_value(z) = Phi(-|z|), read *)
(* from the standard normal table at |z| truncated to one decimal.         *)
(***************************************************************************)
Z_TAIL ==
    << 5000, 4602, 4207, 3821, 3446, 3085, 2743, 2420, 2119, 1841,
       1587, 1357, 1151,  968,  808,  668,  548,  446,  359,  287,
        228,  179,  139,  107,   82,   62,   47,   35,   26,   19,
         13,   10,    7,    5,    3,    2,    2,    1,    1,    0,
          0 >>

Z_tail_at(tenths) ==
    IF tenths + 1 > Len(Z_TAIL) THEN 0 ELSE Z_TAIL[tenths + 1]

\* z in thousandths
Z_p_value_one_sided(z) == Ok(Z_tail_at(Abs(z) \div (T_UNIT \div 10)))

Z_p_value_two_sided(z) == Ok(2 * Z_tail_at(Abs(z) \div (T_UNIT \div 10)))

(***************************************************************************)
(* distributions/t.rs                                                      *)
(***************************************************************************)
TAIL_AREA_SEQUENCE_SIZE == 10
TAIL_AREA_SEQUENCE == << 2500, 2000, 1500, 1000, 500, 250, 100, 50, 10, 5 >>
MAX_DEGREES_OF_FREEDOM == 30

t_scores_30 == <<
    << 1000, 1376, 1963, 3078, 6314, 12710, 31820, 63660, 318310, 636620 >>,
    <<  816, 1061, 1386, 1886, 2920,  4303,  6965,  9925,  22327,  31599 >>,
    <<  765,  978, 1250, 1638, 2353,  3182,  4541,  5841,  10215,  12924 >>,
    <<  741,  941, 1190, 1533, 2132,  2776,  3747,  4604,   7173,   8610 >>,
    <<  727,  920, 1156, 1476, 2015,  2571,  3365,  4032,   5893,   6869 >>,
    <<  718,  906, 1134, 1440, 1943,  2447,  3143,  3707,   5208,   5959 >>,
    <<  711,  896, 1119, 1415, 1895,  2365,  2998,  3499,   4785,   5408 >>,
    <<  706,  889, 1108, 1397, 1860,  2306,  2896,  3355,   4501,   5041 >>,
    <<  703,  883, 1100, 1383, 1833,  2262,  2821,  3250,   4297,   4781 >>,
    <<  700,  879, 1093, 1372, 1812,  2228,  2764,  3169,   4144,   4587 >>,
    <<  697,  876, 1088, 1363, 1796,  2201,  2718,  3106,   4025,   4437 >>,
    <<  695,  873, 1083, 1356, 1782,  2179,  2681,  3055,   3930,   4318 >>,
    <<  694,  870, 1079, 1350, 1771,  2160,  2650,  3012,   3852,   4221 >>,
    <<  692,  868, 1076, 1345, 1761,  2145,  2624,  2977,   3787,   4140 >>,
    <<  691,  866, 1074, 1341, 1753,  2131,  2602,  2947,   3733,   4073 >>,
    <<  690,  865, 1071, 1337, 1746,  2120,  2583,  2921,   3686,   4015 >>,
    <<  689,  863, 1069, 1333, 1740,  2110,  2567,  2898,   3646,   3965 >>,
    <<  688,  862, 1067, 1330, 1734,  2101,  2552,  2878,   3610,   3922 >>,
    <<  688,  861, 1066, 1328, 1729,  2093,  2539,  2861,   3579,   3883 >>,
    <<  687,  860, 1064, 1325, 1725,  2086,  2528,  2845,   3552,   3850 >>,
    <<  686,  859, 1063, 1323, 1721,  2080,  2518,  2831,   3527,   3819 >>,
    <<  686,  858, 1061, 1321, 1717,  2074,  2508,  2819,   3505,   3792 >>,
    <<  685,  858, 1060, 1319, 1714,  2069,  2500,  2807,   3485,   3768 >>,
    <<  685,  857, 1059, 1318, 1711,  2064,  2492,  2797,   3467,   3745 >>,
    <<  684,  856, 1058, 1316, 1708,  2060,  2485,  2787,   3450,   3725 >>,
    <<  684,  856, 1058, 1315, 1706,  2056,  2479,  2779,   3435,   3707 >>,
    <<  684,  855, 1057, 1314, 1703,  2052,  2473,  2771,   3421,   3690 >>,
    <<  683,  855, 1056, 1313, 1701,  2048,  2467,  2763,   3408,   3674 >>,
    <<  683,  854, 1055, 1311, 1699,  2045,  2462,  2756,   3396,   3659 >>,
    <<  683,  854, 1055, 1310, 1697,  2042,  2457,  2750,   3385,   3646 >> >>

t_scores_40   == << 681, 851, 1050, 1303, 1684, 2021, 2423, 2704, 3307, 3551 >>
\* mutant of t_scores_60: two neighbouring entries exchanged
t_scores_60_swapped == << 679, 848, 1045, 1296, 2000, 1671, 2390, 2660, 3232, 3460 >>
t_scores_60   == << 679, 848, 1045, 1296, 1671, 2000, 2390, 2660, 3232, 3460 >>
\* mutant of t_scores_80: the first entry above the one of the 60 row
t_scores_80_raised == << 680, 846, 1043, 1292, 1664, 1990, 2374, 2639, 3195, 3416 >>
t_scores_80   == << 678, 846, 1043, 1292, 1664, 1990, 2374, 2639, 3195, 3416 >>
t_scores_100  == << 677, 845, 1042, 1290, 1660, 1984, 2364, 2626, 3174, 3390 >>
t_scores_1000 == << 675, 842, 1037, 1282, 1646, 1962, 2330, 2581, 3098, 3300 >>

\* Option<&[f64; 10]>: which array of the table, and the 0-based index in it
SomeRow(field, index) == [kind |-> "Some", field |-> field, index |-> index]
NoneRow == [kind |-> "None"]

\* &self.t_scores_30[i]: a bounds-checked index
Index30(i) ==
    IF 0 <= i /\ i < MAX_DEGREES_OF_FREEDOM
    THEN SomeRow("t_scores_30", i)
    ELSE [kind |-> "panic", at |-> "index out of bounds"]

\* mutants of row: the last bucket closed one too far; strict comparisons
row_upto_1001(df) ==
    IF df <= 30 THEN Index30(df - 1)
    ELSE IF df <= 40 THEN SomeRow("t_scores_40", 0)
    ELSE IF df <= 60 THEN SomeRow("t_scores_60", 0)
    ELSE IF df <= 80 THEN SomeRow("t_scores_80", 0)
    ELSE IF df <= 100 THEN SomeRow("t_scores_100", 0)
    ELSE IF df <= 1001 THEN SomeRow("t_scores_1000", 0)
    ELSE NoneRow

row_strict(df) ==
    IF df < 30 THEN Index30(df - 1)
    ELSE IF df < 40 THEN SomeRow("t_scores_40", 0)
    ELSE IF df < 60 THEN SomeRow("t_scores_60", 0)
    ELSE IF df < 80 THEN SomeRow("t_scores_80", 0)
    ELSE IF df < 100 THEN SomeRow("t_scores_100", 0)
    ELSE IF df < 1000 THEN SomeRow("t_scores_1000", 0)
    ELSE NoneRow

row(df) ==
    IF df <= 30 THEN Index30(df - 1)
    ELSE IF df <= 40 THEN SomeRow("t_scores_40", 0)
    ELSE IF df <= 60 THEN SomeRow("t_scores_60", 0)
    ELSE IF df <= 80 THEN SomeRow("t_scores_80", 0)
    ELSE IF df <= 100 THEN SomeRow("t_scores_100", 0)
    ELSE IF df <= 1000 THEN SomeRow("t_scores_1000", 0)
    ELSE NoneRow

\* the critical values a Some row refers to
RowData(r) ==
    CASE r.field = "t_scores_30"   -> t_scores_30[r.index + 1]
      [] r.field = "t_scores_40"   -> t_scores_40
      [] r.field = "t_scores_60"   -> t_scores_60
      [] r.field = "t_scores_80"   -> t_scores_80
      [] r.field = "t_scores_100"  -> t_scores_100
      [] r.field = "t_scores_1000" -> t_scores_1000

\* mutant of Scan: the comparison is >= (a tie stops the scan)
RECURSIVE Scan_ge(_, _, _)
Scan_ge(cols, t, i) ==
    IF i = Len(cols) THEN i
    ELSE IF cols[i + 1] >= t THEN i
    ELSE Scan_ge(cols, t, i + 1)

\* for col in row { if *col > t { break; } i += 1; }  started at i
RECURSIVE Scan(_, _, _)
Scan(cols, t, i) ==
    IF i = Len(cols) THEN i
    ELSE IF cols[i + 1] > t THEN i
    ELSE Scan(cols, t, i + 1)

\* the result of a call and the lookup it consulted
Out(r, c) == [ret |-> r, callee |-> c]

p_value_one_sided(df, t) ==
    LET r == row(df) IN
    IF r.kind = "panic" THEN Out(Panic(r.at), NoCall)
    ELSE IF r.kind = "None"
    THEN Out(Z_p_value_one_sided(t),
             [fn |-> "Z_SCORE_TABLE.p_value_one_sided", z |-> t])
    ELSE LET cols == RowData(r)
             i == Scan(cols, Abs(t), 0)
         IN  Out(IF i = Len(cols)
                 THEN NormalizedF64_new(0)
                 ELSE NormalizedF64_new(TAIL_AREA_SEQUENCE[i + 1]),
                 [fn |-> "TScoreTable.row", row |-> r])

\* mutant of p_value_two_sided: the factor is 3
p_value_two_sided_x3(df, t) ==
    LET one == p_value_one_sided(df, t) IN
    IF one.ret.kind = "panic" THEN one
    ELSE Out(NormalizedF64_new(one.ret.v * 3), one.callee)

p_value_two_sided(df, t) ==
    LET one == p_value_one_sided(df, t) IN
    IF one.ret.kind = "panic" THEN one
    ELSE Out(NormalizedF64_new(one.ret.v * 2), one.callee)

(***************************************************************************)
(* f64 values outside the fixed units: reduced fractions n/d with d > 0,   *)
(* and the two non-finite outcomes of a division by zero.                  *)
(***************************************************************************)
RECURSIVE Gcd(_, _)
Gcd(a, b) == IF b = 0 THEN a ELSE Gcd(b, a % b)

Fin(n, d) ==
    LET g == Gcd(Abs(n), Abs(d))
        sg == IF d < 0 THEN -1 ELSE 1
    IN  [k |-> "fin", n |-> sg * (n \div g), d |-> sg * (d \div g)]
Whole(i) == [k |-> "fin", n |-> i, d |-> 1]
Inf(sign) == [k |-> "inf", n |-> sign, d |-> 0]
NaN == [k |-> "nan", n |-> 0, d |-> 0]

IsFinite(x) == x.k = "fin"

\* a + b, a - b, a * b on finite values
FAdd(a, b) ==
    LET g == Gcd(a.d, b.d) IN
    Fin(a.n * (b.d \div g) + b.n * (a.d \div g), (a.d \div g) * b.d)
FNeg(a) == [k |-> "fin", n |-> 0 - a.n, d |-> a.d]
FSub(a, b) == FAdd(a, FNeg(b))
FMul(a, b) ==
    LET g1 == Gcd(Abs(a.n), b.d)
        g2 == Gcd(Abs(b.n), a.d)
        h1 == IF g1 = 0 THEN 1 ELSE g1
        h2 == IF g2 = 0 THEN 1 ELSE g2
    IN  Fin((a.n \div h1) * (b.n \div h2), (a.d \div h2) * (b.d \div h1))

\* a / b in f64: x/0 is an infinity, 0/0 and inf/inf are NaN, x/inf is 0
FDiv(a, b) ==
    IF a.k = "nan" \/ b.k = "nan" THEN NaN
    ELSE IF a.k = "inf" THEN (IF b.k = "inf" THEN NaN
                             ELSE Inf(IF b.n < 0 THEN 0 - a.n ELSE a.n))
    ELSE IF b.k = "inf" THEN Whole(0)
    ELSE IF b.n = 0 THEN (IF a.n = 0 THEN NaN
                          ELSE Inf(IF a.n < 0 THEN -1 ELSE 1))
    ELSE FMul(a, Fin(b.d, b.n))

\* x.powi(2)
FSquare(x) ==
    IF x.k = "nan" THEN NaN
    ELSE IF x.k = "inf" THEN Inf(1)
    ELSE FMul(x, x)

\* a <= b and a < b in f64: false when either side is NaN
FLe(a, b) ==
    IF a.k = "nan" \/ b.k = "nan" THEN FALSE
    ELSE IF a.k = "inf" THEN (a.n < 0 \/ (b.k = "inf" /\ b.n > 0))
    ELSE IF b.k = "inf" THEN b.n > 0
    ELSE a.n * b.d <= b.n * a.d
FLt(a, b) ==
    IF a.k = "nan" \/ b.k = "nan" THEN FALSE
    ELSE FLe(a, b) /\ ~FLe(b, a)

\* the sum of a sequence of finite values, left to right from 0
RECURSIVE FSum(_)
FSum(xs) ==
    IF Len(xs) = 0 THEN Whole(0)
    ELSE FAdd(FSum(SubSeq(xs, 1, Len(xs) - 1)), xs[Len(xs)])

\* floor(scale * x) for a finite x >= 0
ScaledFloor(x, scale) ==
    scale * (x.n \div x.d) + (scale * (x.n % x.d)) \div x.d

\* floor(sqrt(n)) by bisection: lo*lo <= n < hi*hi
RECURSIVE ISqrtIn(_, _, _)
ISqrtIn(n, lo, hi) ==
    IF hi - lo <= 1 THEN lo
    ELSE LET mid == (lo + hi) \div 2 IN
         IF mid * mid <= n THEN ISqrtIn(n, mid, hi) ELSE ISqrtIn(n, lo, mid)
ISqrt(n) == ISqrtIn(n, 0, 46341)

(***************************************************************************)
(* The validated types of the crate root (UnitR, NonNegR, R) are not among *)
(* the sources; modelled from the specification: construction fails unless *)
(* the value is finite and in the type's range.                            *)
(***************************************************************************)
R_new(x) == IF IsFinite(x) THEN Ok(x) ELSE Panic("R::new")
NonNegR_new(x) ==
    IF IsFinite(x) /\ x.n >= 0 THEN Ok(x) ELSE Panic("NonNegR::new")
UnitR_new(x) ==
    IF IsFinite(x) /\ x.n >= 0 /\ x.n <= x.d THEN Ok(x)
    ELSE Panic("UnitR::new")

\* a statistic z = sign * sqrt(sq), in thousandths, to two decimals
ZMilli(sign, sq) == sign * 10 * ISqrt(ScaledFloor(sq, 10000))

(***************************************************************************)
(* categorical.rs: proportion tests                                        *)
(***************************************************************************)
CountAndProportion(count, proportion) ==
    [count |-> count, proportion |-> proportion]

\* mutant of is_normally_distributed_enough: only the successes are checked
is_normally_distributed_enough_a_only(s) ==
    FLe(Whole(10), FMul(Whole(s.count), s.proportion))

is_normally_distributed_enough(s) ==
    LET a == FLe(Whole(10), FMul(Whole(s.count), s.proportion))
        b == FLe(Whole(10),
                 FMul(Whole(s.count), FSub(Whole(1), s.proportion)))
    IN  a /\ b

CAP_standard_error_squared(s) ==
    FDiv(FMul(s.proportion, FSub(Whole(1), s.proportion)), Whole(s.count))

\* the square of standard_error(samples): the sum before the square root
CAP_standard_error_sq(samples) ==
    FSum([i \in 1 .. Len(samples) |-> CAP_standard_error_squared(samples[i])])

\* z = numerator / sqrt(se_sq), wrapped by R::new, handed to the normal
\* table; z is kept as its sign and its square, and is finite exactly when
\* the square is
ZTest(numerator, se_sq) ==
    LET z_sq == FDiv(FSquare(numerator), se_sq)
        sign == IF numerator.n < 0 THEN -1 ELSE 1
    IN  IF R_new(z_sq).kind = "panic" THEN Out(R_new(z_sq), NoCall)
        ELSE Out(Z_p_value_two_sided(ZMilli(sign, z_sq)),
                 [fn |-> "Z_SCORE_TABLE.p_value_two_sided",
                  z |-> ZMilli(sign, z_sq)])

one_proportion(sample, p_0) ==
    IF ~is_normally_distributed_enough(sample)
    THEN Out(Panic("assert is_normally_distributed_enough"), NoCall)
    ELSE ZTest(FSub(sample.proportion, p_0),
               CAP_standard_error_sq(
                   <<CountAndProportion(sample.count, p_0)>>))

difference_of_two_proportions(sample_1, sample_2, p_0) ==
    IF ~is_normally_distributed_enough(sample_1)
    THEN Out(Panic("assert is_normally_distributed_enough"), NoCall)
    ELSE IF ~is_normally_distributed_enough(sample_2)
    THEN Out(Panic("assert is_normally_distributed_enough"), NoCall)
    ELSE ZTest(FSub(FSub(sample_1.proportion, sample_2.proportion), p_0),
               CAP_standard_error_sq(<<sample_1, sample_2>>))

(***************************************************************************)
(* distributions/chi_square.rs is not among the sources.  CHI_SQUARE_TABLE *)
(* is modelled from the specification: the same first-exceeded-column scan *)
(* as the t table, over chi-square critical values (in hundredths) for 1   *)
(* to 6 degrees of freedom.  What the lookup does for degrees of freedom   *)
(* that have no row is not specified.                                      *)
(***************************************************************************)
CHI_TAIL_AREA_SEQUENCE == << 3000, 2000, 1000, 500, 200, 100, 50, 10 >>
chi_squares == <<
    <<  107,  164,  271,  384,  541,  663,  788, 1083 >>,
    <<  241,  322,  461,  599,  782,  921, 1060, 1382 >>,
    <<  366,  464,  625,  781,  984, 1134, 1284, 1627 >>,
    <<  488,  599,  778,  949, 1167, 1328, 1486, 1847 >>,
    <<  606,  729,  924, 1107, 1339, 1509, 1675, 2052 >>,
    <<  723,  856, 1064, 1259, 1503, 1681, 1855, 2246 >> >>

RECURSIVE ChiScan(_, _, _)
ChiScan(cols, x, i) ==
    IF i = Len(cols) THEN i
    ELSE IF FLt(x, Fin(cols[i + 1], 100)) THEN i
    ELSE ChiScan(cols, x, i + 1)

CHI_p_value(df, chi_square) ==
    IF df \notin DOMAIN chi_squares
    THEN [kind |-> "unspecified", at |-> "CHI_SQUARE_TABLE.p_value"]
    ELSE LET i == ChiScan(chi_squares[df], chi_square, 0) IN
         IF i = Len(chi_squares[df]) THEN Ok(0)
         ELSE Ok(CHI_TAIL_AREA_SEQUENCE[i + 1])

(***************************************************************************)
(* categorical.rs: chi-square tests                                        *)
(***************************************************************************)
\* usize::MAX; the largest integer the checker represents stands for 2^64-1
USIZE_MAX == 2147483647

\* a - b on usize: a panic with overflow checks (the default of a debug
\* build), a wrap without them (the default of a release build)
usize_sub(a, b, overflow_checks) ==
    IF a >= b THEN Ok(a - b)
    ELSE IF overflow_checks THEN Panic("attempt to subtract with overflow")
    ELSE Ok(USIZE_MAX - (b - a) + 1)

\* NonZeroUsize::new(n).unwrap()
NonZeroUsize_new(n) ==
    IF n = 0 THEN Panic("NonZeroUsize::new") ELSE Ok(n)

CountAndExpect(count, expect) == [count |-> count, expect |-> expect]

z_squared(bin) ==
    FDiv(FSquare(FSub(Whole(bin.count), bin.expect)), bin.expect)

ChiCall(df, chi_square) ==
    [fn |-> "CHI_SQUARE_TABLE.p_value", df |-> df, chi_square |-> chi_square]

fitness(catagories, overflow_checks) ==
    LET len_1 == usize_sub(Len(catagories), 1, overflow_checks) IN
    IF len_1.kind = "panic" THEN Out(len_1, NoCall)
    ELSE LET df == NonZeroUsize_new(len_1.v) IN
    IF df.kind = "panic" THEN Out(df, NoCall)
    ELSE IF \E i \in 1 .. Len(catagories) :
                ~FLe(Whole(5), catagories[i].expect)
    THEN Out(Panic("assert expect >= 5"), NoCall)
    ELSE LET chi_square ==
                 FSum([i \in 1 .. Len(catagories) |->
                          z_squared(catagories[i])])
         IN  Out(CHI_p_value(df.v, chi_square), ChiCall(df.v, chi_square))

\* the sum of f over 1..n
RECURSIVE SumTo(_, _)
SumTo(f, n) == IF n = 0 THEN 0 ELSE SumTo(f, n - 1) + f[n]

\* mutant of cell_expect: the division is done on the integers
cell_expect_int_div(row_total, col_total, table_total) ==
    IF table_total = 0 THEN NaN
    ELSE Whole((row_total * col_total) \div table_total)

\* (row_total[r] * col_total[c]) as f64 / table_total as f64
cell_expect(row_total, col_total, table_total) ==
    FDiv(Whole(row_total * col_total), Whole(table_total))

\* R and C are the const parameters, matrix[r][c] the counts
two_way_table_independence(R, C, matrix) ==
    IF ~(R >= 2) THEN Out(Panic("assert R >= 2"), NoCall)
    ELSE IF ~(C >= 2) THEN Out(Panic("assert C >= 2"), NoCall)
    ELSE
    LET row_total == [r \in 1 .. R |-> SumTo(matrix[r], C)]
        col_total == [c \in 1 .. C |->
                         SumTo([r \in 1 .. R |-> matrix[r][c]], R)]
        table_total == SumTo(row_total, R)
        expect == [r \in 1 .. R |-> [c \in 1 .. C |->
                      cell_expect(row_total[r], col_total[c], table_total)]]
    IN
    IF \E r \in 1 .. R : \E c \in 1 .. C : ~FLe(Whole(5), expect[r][c])
    THEN Out(Panic("assert cell_expect >= 5"), NoCall)
    ELSE LET df == NonZeroUsize_new((R - 1) * (C - 1)) IN
    IF df.kind = "panic" THEN Out(df, NoCall)
    ELSE LET chi_square ==
                 FSum([i \in 1 .. (R * C) |->
                         LET r == ((i - 1) \div C) + 1
                             c == ((i - 1) % C) + 1
                         IN  z_squared(CountAndExpect(matrix[r][c],
                                                      expect[r][c]))])
         IN  Out(CHI_p_value(df.v, chi_square), ChiCall(df.v, chi_square))

(***************************************************************************)
(* Z_SCORE_TABLE.z (distributions/normal.rs, not among the sources),       *)
(* modelled from the specification: the critical value whose upper tail    *)
(* is the given probability, read from a table to two decimals.  Tail      *)
(* areas are in thousandths, critical values in hundredths.                *)
(***************************************************************************)
Z_CRITICAL == <<
    [tail |->  25, z |->  196], [tail |->  50, z |->  164],
    [tail |-> 100, z |->  128], [tail |-> 200, z |->   84],
    [tail |-> 500, z |->    0], [tail |-> 800, z |->  -84],
    [tail |-> 900, z |-> -128], [tail |-> 950, z |-> -164],
    [tail |-> 975, z |-> -196] >>

\* the first entry whose tail area is not below q, the last one otherwise
RECURSIVE Z_entry(_, _)
Z_entry(q, i) ==
    IF i = Len(Z_CRITICAL) \/ FLe(q, Fin(Z_CRITICAL[i].tail, 1000)) THEN i
    ELSE Z_entry(q, i + 1)

Z_z(q) == Fin(Z_CRITICAL[Z_entry(q, 1)].z, 100)

\* mutant of ceil_as_usize: the count is rounded down
floor_as_usize(count) ==
    IF count.k = "nan" THEN 0
    ELSE IF count.k = "inf" THEN (IF count.n > 0 THEN USIZE_MAX ELSE 0)
    ELSE IF count.n <= 0 THEN 0
    ELSE count.n \div count.d

\* count.ceil() as usize: the cast saturates, and NaN becomes 0
ceil_as_usize(count) ==
    IF count.k = "nan" THEN 0
    ELSE IF count.k = "inf" THEN (IF count.n > 0 THEN USIZE_MAX ELSE 0)
    ELSE IF count.n <= 0 THEN 0
    ELSE (count.n + count.d - 1) \div count.d

(***************************************************************************)
(* categorical.rs: sample size for two proportions                         *)
(***************************************************************************)
CAT_min_count_of_each_of_two_samples(proportion_1, proportion_2, p_0, power, max_p_value) ==
    LET one_sided_p_value == UnitR_new(FDiv(max_p_value, Whole(2))) IN
    IF one_sided_p_value.kind = "panic" THEN Out(one_sided_p_value, NoCall)
    ELSE
    LET power_region_extension == Z_z(power)
        reject_region_extension == Z_z(one_sided_p_value.v)
        region == FSub(reject_region_extension, power_region_extension)
        error == FAdd(FMul(proportion_1, FSub(Whole(1), proportion_1)),
                      FMul(proportion_2, FSub(Whole(1), proportion_2)))
        diff == FSub(FSub(proportion_1, proportion_2), p_0)
        count == FDiv(error, FSquare(FDiv(diff, region)))
    IN  Out(Ok(ceil_as_usize(count)), NoCall)

(***************************************************************************)
(* numerical.rs                                                            *)
(***************************************************************************)
\* strict_num on fractions: NormalizedF64 is [0, 1], PositiveF64 is >= 0
NormalizedF64_new_f(x) ==
    IF IsFinite(x) /\ x.n >= 0 /\ x.n <= x.d THEN Ok(x)
    ELSE Panic("NormalizedF64::new")
PositiveF64_new(x) ==
    IF IsFinite(x) /\ x.n >= 0 THEN Ok(x) ELSE Panic("PositiveF64::new")

NumericalSample(mean, variance, count) ==
    [mean |-> mean, variance |-> variance, count |-> count]

NUM_min_count_of_each_of_two_samples(mean_a, power, max_p_value, deviation_1, deviation_2) ==
    LET one_sided_p_value == NormalizedF64_new_f(FDiv(max_p_value, Whole(2)))
    IN
    IF one_sided_p_value.kind = "panic" THEN Out(one_sided_p_value, NoCall)
    ELSE
    LET power_region_extension == Z_z(power)
        reject_region_extension == Z_z(one_sided_p_value.v)
        region == FSub(reject_region_extension, power_region_extension)
        count == FDiv(FAdd(deviation_1, deviation_2),
                      FSquare(FDiv(mean_a, region)))
    IN  Out(Ok(ceil_as_usize(count)), NoCall)

\* strict_num::FiniteF64::new(x).unwrap()
FiniteF64_new(x) == IF IsFinite(x) THEN Ok(x) ELSE Panic("FiniteF64::new")

NS_standard_error_squared(s) == FDiv(s.variance, Whole(s.count))

\* the square of standard_error(samples)
NUM_standard_error_sq(samples) ==
    FSum([i \in 1 .. Len(samples) |-> NS_standard_error_squared(samples[i])])

TCall(df, t) == [fn |-> "T_SCORE_TABLE.p_value_two_sided", df |-> df, t |-> t]

\* t = numerator / standard_error, wrapped by FiniteF64::new; then the
\* degrees of freedom df_0 wrapped by NonZeroUsize::new; then the t table.
\* t is kept as its sign and its square (finite exactly when t is) and is
\* handed to the table in thousandths, to two decimals
TTest(numerator, se_sq, df_0) ==
    LET t == FiniteF64_new(FDiv(FSquare(numerator), se_sq))
        sign == IF numerator.n < 0 THEN -1 ELSE 1
    IN  IF t.kind = "panic" THEN Out(t, NoCall)
        ELSE LET df == NonZeroUsize_new(df_0) IN
        IF df.kind = "panic" THEN Out(df, NoCall)
        ELSE Out(p_value_two_sided(df.v, ZMilli(sign, t.v)).ret,
                 TCall(df.v, ZMilli(sign, t.v)))

\* mutant of one_sample_df: the count itself
one_sample_df_count(sample) == sample.count

\* sample.count.get() - 1
one_sample_df(sample) == sample.count - 1

one_sample_mean(sample, mean_0) ==
    TTest(FSub(sample.mean, mean_0), NUM_standard_error_sq(<<sample>>),
          one_sample_df(sample))

\* mutant of two_means_df: the larger count
two_means_df_max(sample_1, sample_2) ==
    (IF sample_1.count >= sample_2.count THEN sample_1.count
     ELSE sample_2.count) - 1

\* sample_1.count.min(sample_2.count).get() - 1
two_means_df(sample_1, sample_2) ==
    (IF sample_1.count <= sample_2.count THEN sample_1.count
     ELSE sample_2.count) - 1

difference_of_two_means(sample_1, sample_2, mean_0) ==
    TTest(FSub(FSub(sample_1.mean, sample_2.mean), mean_0),
          NUM_standard_error_sq(<<sample_1, sample_2>>),
          two_means_df(sample_1, sample_2))

\* f64::MAX, the largest finite f64; a value the checker's integers can
\* multiply by a degree of freedom stands for 1.7976931348623157e308
F64_MAX == 1000000

\* a * b in f64 for finite a and b: a product past f64::MAX is an infinity
f64_mul(a, b) ==
    LET p == FMul(a, b)
        q == Abs(p.n) \div p.d
        r == Abs(p.n) % p.d
    IN  IF q > F64_MAX \/ (q = F64_MAX /\ r > 0)
        THEN Inf(IF p.n < 0 THEN -1 ELSE 1)
        ELSE p

\* a + b in f64 for b finite: an infinity absorbs it
f64_add(a, b) == IF IsFinite(a) THEN FAdd(a, b) ELSE a

\* distributions/f.rs, FCdf::p_value: the transform of the F ratio is
\* modelled; the two integrals of incomplete_beta_function are computed by
\* an external quadrature routine and their ratio is left unspecified
F_p_value(params) ==
    LET df_1 == Whole(params.df_1)
        df_2 == Whole(params.df_2)
        x == FDiv(f64_mul(df_1, params.x),
                  f64_add(f64_mul(df_1, params.x), df_2))
    IN  IF NormalizedF64_new_f(x).kind = "panic"
        THEN NormalizedF64_new_f(x)
        ELSE [kind |-> "unspecified", at |-> "incomplete_beta_function",
              x |-> x, a |-> Fin(params.df_1, 2), b |-> Fin(params.df_2, 2)]

\* groups.len().checked_sub(1).unwrap()
checked_sub_1(n) == IF n >= 1 THEN Ok(n - 1) ELSE Panic("checked_sub")

sum_of_squares_between_groups(groups, total_n) ==
    LET total_sum ==
            FSum([i \in 1 .. Len(groups) |->
                     FMul(groups[i].mean, Whole(groups[i].count))])
        total_mean == FDiv(total_sum, Whole(total_n))
    IN  FSum([i \in 1 .. Len(groups) |->
                 FMul(Whole(groups[i].count),
                      FSquare(FSub(groups[i].mean, total_mean)))])

mean_square_between_groups(groups, total_n, df_g) ==
    FDiv(sum_of_squares_between_groups(groups, total_n), Whole(df_g))

\* mutant of sum_of_squared_errors: the variances are weighted by count
sum_of_squared_errors_by_count(groups) ==
    FSum([i \in 1 .. Len(groups) |->
             FMul(Whole(groups[i].count), groups[i].variance)])

sum_of_squared_errors(groups) ==
    FSum([i \in 1 .. Len(groups) |->
             FMul(Whole(groups[i].count - 1), groups[i].variance)])

mean_square_error(groups, df_e) ==
    FDiv(sum_of_squared_errors(groups), Whole(df_e))

anova(groups) ==
    LET total_n == SumTo([i \in 1 .. Len(groups) |-> groups[i].count],
                        Len(groups))
        len_1 == checked_sub_1(Len(groups))
    IN
    IF len_1.kind = "panic" THEN Out(len_1, NoCall)
    ELSE LET df_g == NonZeroUsize_new(len_1.v) IN
    IF df_g.kind = "panic" THEN Out(df_g, NoCall)
    ELSE LET msg == mean_square_between_groups(groups, total_n, df_g.v)
             df_e == NonZeroUsize_new(total_n - Len(groups))
         IN
    IF df_e.kind = "panic" THEN Out(df_e, NoCall)
    ELSE LET mse == mean_square_error(groups, df_e.v)
             x == PositiveF64_new(FDiv(msg, mse))
         IN
    IF x.kind = "panic" THEN Out(x, NoCall)
    ELSE LET f_params == [x |-> x.v, df_1 |-> df_g.v, df_2 |-> df_e.v]
             p == F_p_value(f_params)
         IN  Out(IF p.kind = "panic" THEN p
                 ELSE Ok([f_params |-> f_params, p |-> p]),
                 [fn |-> "F_CDF.p_value", params |-> f_params])

(***************************************************************************)
(* Inputs                                                                  *)
(***************************************************************************)
\* NonZeroUsize degrees of freedom: every table line and both sides of 1000
DfValues == 1 .. (1000 + MaxDfBeyond)

\* degrees of freedom the p-value functions are called with: each of the 30
\* single rows, both ends of every bucket, and beyond the table
DfSample ==
    (1 .. MAX_DEGREES_OF_FREEDOM)
        \cup {31, 35, 40, 41, 60, 61, 80, 81, 100, 101, 999, 1000}
        \cup (1001 .. (1000 + MaxDfBeyond))

Offsets == (0 - MaxOffset) .. MaxOffset

\* |t| values: 0, 2, and every critical value of the line consulted for df with
\* its neighbours; beyond the table, the steps of the normal table
TMagnitudes(df) ==
    LET r == row(df) IN
    IF r.kind = "Some"
    THEN {0, 2 * T_UNIT} \cup { RowData(r)[j] + d : j \in 1 .. TAIL_AREA_SEQUENCE_SIZE,
                                        d \in Offsets }
    ELSE { m \in { k * 500 + d : k \in 0 .. 9, d \in Offsets } : m >= 0 }

TValues(df) == { s * m : s \in {-1, 1}, m \in TMagnitudes(df) }

\* categorical samples: counts from 0, proportions 0 .. 1 in tenths
Counts == {0, 10, 20, 50, 100}
Proportions == { Fin(i, 10) : i \in {0, 1, 2, 5, 8, 9, 10} }
Samples == { CountAndProportion(c, q) : c \in Counts, q \in Proportions }
NullProportions == { Fin(i, 10) : i \in {0, 1, 5, 10} }

\* goodness-of-fit bins: expected counts below, at and above 5
Bins == { CountAndExpect(c, e) :
            c \in {0, 5, 26}, e \in {Whole(0), Fin(19, 4), Whole(5), Fin(77, 4)} }
BinSeqs == UNION { [1 .. n -> Bins] : n \in 0 .. MaxBins }

\* sample-size planning: power, target p-value, proportions, means and
\* variances; a difference of 0 and a region of 0 (power = p/2) included
Powers == { Fin(1, 5), Fin(1, 2), Fin(4, 5), Fin(9, 10) }
MaxPValues == { Fin(1, 20), Fin(1, 10), Fin(1, 5), Fin(2, 5) }
PlanProportions == { Whole(0), Fin(1, 10), Fin(1, 2), Fin(9, 10) }
PlanNulls == { Whole(0), Fin(1, 10) }
PlanMeans == { Whole(-3), Whole(0), Fin(5, 2) }
PlanVariances == { Whole(0), Fin(25, 4), Whole(144) }

\* groups for the analysis of variance: the three of the repository's test,
\* groups of a single observation, and groups without variance
Groups ==
    { NumericalSample(Fin(343, 4), Fin(113, 4), 4),
      NumericalSample(Whole(84), Whole(13), 3),
      NumericalSample(Fin(451, 5), Fin(157, 10), 5),
      NumericalSample(Whole(84), Whole(13), 1),
      NumericalSample(Whole(84), Whole(0), 2),
      NumericalSample(Fin(343, 4), Whole(0), 1) }
GroupSeqs == UNION { [1 .. n -> Groups] : n \in 0 .. MaxGroups }

\* samples for the t-tests: counts of 1 (no degree of freedom left), counts
\* on several table lines and past the table, a variance of 0; and the pair
\* of samples of test_difference_of_two_means
TCounts == {1, 2, 3, 31, 50, 100, 1002}
TSamples ==
    { NumericalSample(m, v, c) :
        m \in {Whole(0), Fin(5, 2)}, v \in {Whole(0), Whole(4), Whole(25)},
        c \in TCounts }
TestSample_1 == NumericalSample(Fin(359, 50), Fin(64, 25), 100)
TestSample_2 == NumericalSample(Fin(339, 50), Fin(20449, 10000), 50)
TSamplePairs == (TSamples \X TSamples) \cup {<<TestSample_1, TestSample_2>>}
NullMeans == { Whole(0), Whole(2) }

\* F ratios and degrees of freedom handed to the F distribution: 0, values
\* around 1, and the largest values of the type
MaxFDf == 3
FRatios == { Whole(0), Fin(1, 2), Whole(1), Fin(5047, 2314),
             Whole(F64_MAX \div 2), Whole(F64_MAX) }
FParamsSet == [x : FRatios, df_1 : 1 .. MaxFDf, df_2 : 1 .. MaxFDf]

\* two-way tables of R x C cells, R * C <= MaxCells, either side from 0
CellCounts == {0, 5, 20}
Shapes == { sh \in (0 .. MaxCells) \X (0 .. MaxCells) : sh[1] * sh[2] <= MaxCells }
Tables == UNION { { [R |-> sh[1], C |-> sh[2], matrix |-> mx] :
                      mx \in [1 .. sh[1] -> [1 .. sh[2] -> CellCounts]] } :
                  sh \in Shapes }

(***************************************************************************)
(* The state machine                                                       *)
(***************************************************************************)
Init ==
    /\ pc = "call"
    /\ ret = NoRet
    /\ callee = NoCall
    /\ \/ /\ op = "row"
          /\ args \in { [df |-> df] : df \in DfValues }
       \/ /\ op \in {"p_value_one_sided", "p_value_two_sided"}
          /\ \E df \in DfSample : \E t \in TValues(df) :
                args = [df |-> df, t |-> t]
       \/ /\ op = "one_proportion"
          /\ args \in [sample : Samples, p_0 : NullProportions]
       \/ /\ op = "difference_of_two_proportions"
          /\ args \in [sample_1 : Samples, sample_2 : Samples,
                        p_0 : NullProportions]
       \/ /\ op = "fitness"
          /\ args \in [catagories : BinSeqs, overflow_checks : BOOLEAN]
       \/ /\ op = "two_way_table_independence"
          /\ args \in Tables
       \/ /\ op = "categorical::min_count_of_each_of_two_samples"
          /\ args \in [proportion_1 : PlanProportions,
                        proportion_2 : PlanProportions, p_0 : PlanNulls,
                        power : Powers, max_p_value : MaxPValues]
       \/ /\ op = "numerical::min_count_of_each_of_two_samples"
          /\ args \in [mean_a : PlanMeans, power : Powers,
                        max_p_value : MaxPValues,
                        deviation_1 : PlanVariances,
                        deviation_2 : PlanVariances]
       \/ /\ op = "anova"
          /\ args \in [groups : GroupSeqs]
       \/ /\ op = "F_CDF.p_value"
          /\ args \in FParamsSet
       \/ /\ op = "one_sample_mean"
          /\ args \in [sample : TSamples, mean_0 : NullMeans]
       \/ /\ op = "difference_of_two_means"
          /\ \E pair \in TSamplePairs : \E mean_0 \in NullMeans :
                args = [sample_1 |-> pair[1], sample_2 |-> pair[2],
                        mean_0 |-> mean_0]

Row ==
    /\ pc = "call" /\ op = "row"
    /\ ret' = Ok(row(args.df))
    /\ callee' = NoCall
    /\ pc' = "done"
    /\ UNCHANGED <<op, args>>

PValueOneSided ==
    /\ pc = "call" /\ op = "p_value_one_sided"
    /\ LET o == p_value_one_sided(args.df, args.t) IN
          ret' = o.ret /\ callee' = o.callee
    /\ pc' = "done"
    /\ UNCHANGED <<op, args>>

PValueTwoSided ==
    /\ pc = "call" /\ op = "p_value_two_sided"
    /\ LET o == p_value_two_sided(args.df, args.t) IN
          ret' = o.ret /\ callee' = o.callee
    /\ pc' = "done"
    /\ UNCHANGED <<op, args>>

OneProportion ==
    /\ pc = "call" /\ op = "one_proportion"
    /\ LET o == one_proportion(args.sample, args.p_0) IN
          ret' = o.ret /\ callee' = o.callee
    /\ pc' = "done"
    /\ UNCHANGED <<op, args>>

DifferenceOfTwoProportions ==
    /\ pc = "call" /\ op = "difference_of_two_proportions"
    /\ LET o == difference_of_two_proportions(args.sample_1, args.sample_2,
                                              args.p_0) IN
          ret' = o.ret /\ callee' = o.callee
    /\ pc' = "done"
    /\ UNCHANGED <<op, args>>

Fitness ==
    /\ pc = "call" /\ op = "fitness"
    /\ LET o == fitness(args.catagories, args.overflow_checks) IN
          ret' = o.ret /\ callee' = o.callee
    /\ pc' = "done"
    /\ UNCHANGED <<op, args>>

TwoWayTableIndependence ==
    /\ pc = "call" /\ op = "two_way_table_independence"
    /\ LET o == two_way_table_independence(args.R, args.C, args.matrix) IN
          ret' = o.ret /\ callee' = o.callee
    /\ pc' = "done"
    /\ UNCHANGED <<op, args>>

CatMinCount ==
    /\ pc = "call" /\ op = "categorical::min_count_of_each_of_two_samples"
    /\ LET o == CAT_min_count_of_each_of_two_samples(
                    args.proportion_1, args.proportion_2, args.p_0,
                    args.power, args.max_p_value) IN
          ret' = o.ret /\ callee' = o.callee
    /\ pc' = "done"
    /\ UNCHANGED <<op, args>>

NumMinCount ==
    /\ pc = "call" /\ op = "numerical::min_count_of_each_of_two_samples"
    /\ LET o == NUM_min_count_of_each_of_two_samples(
                    args.mean_a, args.power, args.max_p_value,
                    args.deviation_1, args.deviation_2) IN
          ret' = o.ret /\ callee' = o.callee
    /\ pc' = "done"
    /\ UNCHANGED <<op, args>>

Anova ==
    /\ pc = "call" /\ op = "anova"
    /\ LET o == anova(args.groups) IN
          ret' = o.ret /\ callee' = o.callee
    /\ pc' = "done"
    /\ UNCHANGED <<op, args>>

FCdfPValue ==
    /\ pc = "call" /\ op = "F_CDF.p_value"
    /\ ret' = F_p_value(args)
    /\ callee' = IF F_p_value(args).kind = "panic" THEN NoCall
                 ELSE [fn |-> "incomplete_beta_function",
                       x |-> F_p_value(args).x,
                       a |-> F_p_value(args).a, b |-> F_p_value(args).b]
    /\ pc' = "done"
    /\ UNCHANGED <<op, args>>

OneSampleMean ==
    /\ pc = "call" /\ op = "one_sample_mean"
    /\ LET o == one_sample_mean(args.sample, args.mean_0) IN
          ret' = o.ret /\ callee' = o.callee
    /\ pc' = "done"
    /\ UNCHANGED <<op, args>>

DifferenceOfTwoMeans ==
    /\ pc = "call" /\ op = "difference_of_two_means"
    /\ LET o == difference_of_two_means(args.sample_1, args.sample_2,
                                        args.mean_0) IN
          ret' = o.ret /\ callee' = o.callee
    /\ pc' = "done"
    /\ UNCHANGED <<op, args>>

Next ==
    \/ Row
    \/ PValueOneSided
    \/ PValueTwoSided
    \/ OneProportion
    \/ DifferenceOfTwoProportions
    \/ Fitness
    \/ TwoWayTableIndependence
    \/ CatMinCount
    \/ NumMinCount
    \/ Anova
    \/ FCdfPValue
    \/ OneSampleMean
    \/ DifferenceOfTwoMeans

Spec == Init /\ [][Next]_vars

(***************************************************************************)
(* Claims                                                                  *)
(***************************************************************************)
Done(o) == pc = "done" /\ op = o

\* The table line the specification assigns to df in 1..1000: row df for
\* 1..30, then the 40, 60, 80, 100 and 1000 rows for (30,40], (40,60],
\* (60,80], (80,100], (100,1000].
LineOf(df) ==
    CASE df \in 1 .. 30     -> t_scores_30[df]
      [] df \in 31 .. 40    -> t_scores_40
      [] df \in 41 .. 60    -> t_scores_60
      [] df \in 61 .. 80    -> t_scores_80
      [] df \in 81 .. 100   -> t_scores_100
      [] df \in 101 .. 1000 -> t_scores_1000

Columns == 1 .. TAIL_AREA_SEQUENCE_SIZE

\* the columns of a line whose critical value is strictly greater than a
Greater(line, a) == { j \in Columns : line[j] > a }

\* the tail area of the first such column, 0 when there is none
FirstGreaterArea(line, a) ==
    IF Greater(line, a) = {} THEN 0
    ELSE TAIL_AREA_SEQUENCE[CHOOSE j \in Greater(line, a) :
                                \A k \in Greater(line, a) : j <= k]

\* C1: for df in 1..1000, p_value_one_sided(df, t) is the tail area of the
\* first column of df's row whose critical value is strictly greater than
\* |t|, and 0 when there is none; when |t| equals the critical value of
\* column j the result is the tail area of column j+1, or 0 when j is the
\* last column.
C1_FirstExceededColumn ==
    (Done("p_value_one_sided") /\ args.df <= 1000) =>
        /\ ret.kind = "ok"
        /\ ret.v = FirstGreaterArea(LineOf(args.df), Abs(args.t))
        /\ \A j \in Columns :
              LineOf(args.df)[j] = Abs(args.t) =>
                 ret.v = IF j = TAIL_AREA_SEQUENCE_SIZE THEN 0
                         ELSE TAIL_AREA_SEQUENCE[j + 1]

\* df = 35, t = -2.021 (the critical value of column 6 of the 40 row): the
\* result is the tail area of column 7
C1_Witness ==
    /\ Done("p_value_one_sided")
    /\ args.df = 35 /\ args.t = -2021
    /\ ret.kind = "ok" /\ ret.v = 100

\* C2: p_value_two_sided(df, t) is exactly twice p_value_one_sided(df, t),
\* both lie in [0, 1], and the re-wrapping of the doubled value never fails.
C2_TwoSidedIsDouble ==
    /\ Done("p_value_one_sided") =>
          ret.kind = "ok" /\ 0 <= ret.v /\ ret.v <= P_UNIT
    /\ Done("p_value_two_sided") =>
          /\ ret.kind = "ok" /\ 0 <= ret.v /\ ret.v <= P_UNIT
          /\ p_value_one_sided(args.df, args.t).ret.kind = "ok"
          /\ ret.v = 2 * p_value_one_sided(args.df, args.t).ret.v

\* the largest one-sided value of the table, 0.25, doubled to 0.5
C2_Witness ==
    /\ Done("p_value_two_sided")
    /\ args.df = 1 /\ args.t = 0
    /\ ret.kind = "ok" /\ ret.v = 5000

\* C3: for a fixed df in 1..1000 the one-sided p-value is non-increasing in
\* |t|, and the row consulted is ascending across its ten columns.
C3_MonotoneInT ==
    (Done("p_value_one_sided") /\ args.df <= 1000) =>
        /\ \A t2 \in TValues(args.df) :
              Abs(args.t) <= Abs(t2) =>
                 p_value_one_sided(args.df, t2).ret.v <= ret.v
        /\ callee.fn = "TScoreTable.row"
        /\ \A j \in 1 .. (TAIL_AREA_SEQUENCE_SIZE - 1) :
              RowData(callee.row)[j] < RowData(callee.row)[j + 1]

\* a statistic between two critical values of the 60 row, with a strictly
\* smaller p-value further out
C3_Witness ==
    /\ Done("p_value_one_sided")
    /\ args.df = 60 /\ args.t = 1672
    /\ ret.kind = "ok" /\ ret.v = 250
    /\ \E t2 \in TValues(60) :
          Abs(t2) > 1672 /\ p_value_one_sided(60, t2).ret.v < 250

\* C4: for df > 1000 the t p-values are the normal p-values of t and no
\* table row is consulted; for df = 1000 the 1000 row is still used.
C4_NormalBeyondTable ==
    /\ (Done("p_value_one_sided") /\ args.df > 1000) =>
          /\ ret = Z_p_value_one_sided(args.t)
          /\ callee.fn = "Z_SCORE_TABLE.p_value_one_sided"
          /\ callee.z = args.t
    /\ (Done("p_value_two_sided") /\ args.df > 1000) =>
          /\ ret = Z_p_value_two_sided(args.t)
          /\ callee.fn = "Z_SCORE_TABLE.p_value_one_sided"
          /\ callee.z = args.t
    /\ ((Done("p_value_one_sided") \/ Done("p_value_two_sided"))
            /\ args.df = 1000) =>
          /\ callee.fn = "TScoreTable.row"
          /\ callee.row = SomeRow("t_scores_1000", 0)

\* df = 1001, t = 2: the two-sided normal p-value 0.0456
C4_Witness ==
    /\ Done("p_value_two_sided")
    /\ args.df = 1001 /\ args.t = 2000
    /\ ret.kind = "ok" /\ ret.v = 456
    /\ callee.fn = "Z_SCORE_TABLE.p_value_one_sided"

\* the row the specification names for df, as the array and index in it
BucketOf(df) ==
    CASE df \in 1 .. 30         -> SomeRow("t_scores_30", df - 1)
      [] df > 30 /\ df <= 40    -> SomeRow("t_scores_40", 0)
      [] df > 40 /\ df <= 60    -> SomeRow("t_scores_60", 0)
      [] df > 60 /\ df <= 80    -> SomeRow("t_scores_80", 0)
      [] df > 80 /\ df <= 100   -> SomeRow("t_scores_100", 0)
      [] df > 100 /\ df <= 1000 -> SomeRow("t_scores_1000", 0)
      [] df > 1000              -> NoneRow

\* C5: row selection maps df in 1..30 to its own row, (30,40] to the 40 row,
\* (40,60] to the 60 row, (60,80] to the 80 row, (80,100] to the 100 row,
\* (100,1000] to the 1000 row and df > 1000 to no row; the index into the
\* 30 single rows is never out of bounds.
C5_RowSelection ==
    Done("row") =>
        /\ ret.v.kind \in {"Some", "None"}
        /\ ret.v = BucketOf(args.df)
        /\ (ret.v.kind = "Some" /\ ret.v.field = "t_scores_30") =>
              ret.v.index \in 0 .. (Len(t_scores_30) - 1)

\* the last df of the (80,100] bucket
C5_Witness ==
    /\ Done("row")
    /\ args.df = 100
    /\ ret.v = SomeRow("t_scores_100", 0)

\* count * proportion >= 10 and count * (1 - proportion) >= 10, with the
\* proportion i/10 taken as the fraction it is
Adequate(s) ==
    /\ s.count * s.proportion.n >= 10 * s.proportion.d
    /\ s.count * (s.proportion.d - s.proportion.n) >= 10 * s.proportion.d

AbortedAtNormalityCheck ==
    /\ ret.kind = "panic"
    /\ ret.at = "assert is_normally_distributed_enough"
    /\ callee = NoCall

\* C6: one_proportion and difference_of_two_proportions abort, before any
\* statistic is computed, when some sample has count * proportion < 10 or
\* count * (1 - proportion) < 10 (count = 0 included); when every sample
\* satisfies both, the check passes.
C6_NormalityGuard ==
    /\ Done("one_proportion") =>
          /\ ~Adequate(args.sample) => AbortedAtNormalityCheck
          /\ Adequate(args.sample) => ~AbortedAtNormalityCheck
          /\ ret.kind = "ok" => Adequate(args.sample)
    /\ Done("difference_of_two_proportions") =>
          /\ (~Adequate(args.sample_1) \/ ~Adequate(args.sample_2)) =>
                AbortedAtNormalityCheck
          /\ (Adequate(args.sample_1) /\ Adequate(args.sample_2)) =>
                ~AbortedAtNormalityCheck
          /\ ret.kind = "ok" =>
                (Adequate(args.sample_1) /\ Adequate(args.sample_2))

\* the first sample is adequate, the second has count * (1 - p) = 5 < 10
C6_Witness ==
    /\ Done("difference_of_two_proportions")
    /\ args.sample_1 = CountAndProportion(100, Fin(5, 10))
    /\ args.sample_2 = CountAndProportion(50, Fin(9, 10))
    /\ AbortedAtNormalityCheck

\* every bin's expected count is at least 5
AllExpectedAtLeast5(bins) ==
    \A i \in 1 .. Len(bins) : bins[i].expect.n >= 5 * bins[i].expect.d

LookupCalled == callee.fn = "CHI_SQUARE_TABLE.p_value"

\* C7: fitness over k bins calls the chi-square lookup with exactly k - 1
\* degrees of freedom, and only when k >= 2 and every expected count is at
\* least 5; with fewer than 2 bins (the empty slice included) or an expected
\* count below 5 the call fails and returns no p-value.
C7_FitnessGuard ==
    Done("fitness") =>
        LET k == Len(args.catagories)
            valid == k >= 2 /\ AllExpectedAtLeast5(args.catagories)
        IN  /\ valid => (LookupCalled /\ callee.df = k - 1)
            /\ LookupCalled => (valid /\ callee.df = k - 1)
            /\ ~valid => (ret.kind = "panic" /\ callee = NoCall)

\* the totals of a two-way table, from its cells
RowTotal(a, r) == SumTo(a.matrix[r], a.C)
ColTotal(a, c) == SumTo([r \in 1 .. a.R |-> a.matrix[r][c]], a.R)
GrandTotal(a) == SumTo([r \in 1 .. a.R |-> RowTotal(a, r)], a.R)

\* some cell's expected count rowTotal * colTotal / grandTotal is below 5,
\* or is no number at all (the all-zero table)
SomeExpectedBelow5(a) ==
    \/ GrandTotal(a) = 0
    \/ \E r \in 1 .. a.R : \E c \in 1 .. a.C :
          RowTotal(a, r) * ColTotal(a, c) < 5 * GrandTotal(a)

\* (observed - expected)^2 / expected of cell (r, c), for a positive
\* expected count
CellTerm(a, r, c) ==
    LET e == Fin(RowTotal(a, r) * ColTotal(a, c), GrandTotal(a))
        o == Whole(a.matrix[r][c])
    IN  FMul(FMul(FSub(o, e), FSub(o, e)), Fin(e.d, e.n))

\* the sum of the cell terms, column by column
SumOfCellTerms(a) ==
    FSum([i \in 1 .. (a.R * a.C) |->
             CellTerm(a, ((i - 1) % a.R) + 1, ((i - 1) \div a.R) + 1)])

\* C8: two_way_table_independence aborts if R < 2, C < 2 or some cell's
\* expected count rowTotal * colTotal / grandTotal is below 5 (the all-zero
\* table included), and otherwise calls the chi-square lookup with
\* (R-1)(C-1) degrees of freedom and the sum over all cells of
\* (observed - expected)^2 / expected.
C8_IndependenceTest ==
    Done("two_way_table_independence") =>
        IF args.R < 2 \/ args.C < 2 \/ SomeExpectedBelow5(args)
        THEN ret.kind = "panic" /\ callee = NoCall
        ELSE /\ LookupCalled
             /\ callee.df = (args.R - 1) * (args.C - 1)
             /\ callee.chi_square = SumOfCellTerms(args)
             /\ ret = CHI_p_value(callee.df, callee.chi_square)

\* a 2 x 3 table that passes every check: 2 degrees of freedom and a
\* statistic of 25
C8_Witness ==
    /\ Done("two_way_table_independence")
    /\ args.R = 2 /\ args.C = 3
    /\ args.matrix = << <<20, 5, 20>>, <<5, 20, 5>> >>
    /\ LookupCalled
    /\ callee.df = 2
    /\ callee.chi_square = Whole(25)

\* the groups of the repository's test_anova
TestGroups ==
    << NumericalSample(Fin(343, 4), Fin(113, 4), 4),
       NumericalSample(Whole(84), Whole(13), 3),
       NumericalSample(Fin(451, 5), Fin(157, 10), 5) >>

\* N, SSG and SSE of a sequence of groups; SSG as the weighted sum of the
\* squared means less the square of the weighted sum over N, which equals
\* the sum of n_i (mean_i - grand mean)^2
TotalCount(g) == SumTo([i \in 1 .. Len(g) |-> g[i].count], Len(g))
WeightedSum(g) ==
    FSum([i \in 1 .. Len(g) |-> FMul(Whole(g[i].count), g[i].mean)])
SSG(g) ==
    FSub(FSum([i \in 1 .. Len(g) |->
                  FMul(Whole(g[i].count), FMul(g[i].mean, g[i].mean))]),
         FMul(FMul(WeightedSum(g), WeightedSum(g)), Fin(1, TotalCount(g))))
SSE(g) ==
    FSum([i \in 1 .. Len(g) |-> FMul(Whole(g[i].count - 1), g[i].variance)])

PlanDelta ==
    IF op = "numerical::min_count_of_each_of_two_samples" THEN args.mean_a
    ELSE FSub(FSub(args.proportion_1, args.proportion_2), args.p_0)
PlanError ==
    IF op = "numerical::min_count_of_each_of_two_samples"
    THEN FAdd(args.deviation_1, args.deviation_2)
    ELSE FAdd(FMul(args.proportion_1, FSub(Whole(1), args.proportion_1)),
              FMul(args.proportion_2, FSub(Whole(1), args.proportion_2)))
HalfP == FMul(args.max_p_value, Fin(1, 2))
\* z(p/2) - z(power)
RegionOfCode == FSub(Z_z(HalfP), Z_z(args.power))
\* z(1 - power) - z(p/2)
RegionAsClaimed == FSub(Z_z(FSub(Whole(1), args.power)), Z_z(HalfP))

\* n is error / (delta / region)^2 rounded up to the next integer
IsRoundedUp(n, error, delta, region) ==
    LET x == FMul(error, FMul(FMul(region, region),
                              Fin(delta.d * delta.d, delta.n * delta.n)))
    IN  (n - 1) * x.d < x.n /\ x.n <= n * x.d

PlanDone ==
    \/ Done("numerical::min_count_of_each_of_two_samples")
    \/ Done("categorical::min_count_of_each_of_two_samples")

IsTestPlan ==
    /\ op = "numerical::min_count_of_each_of_two_samples"
    /\ args = [mean_a |-> Whole(-3), power |-> Fin(4, 5),
               max_p_value |-> Fin(1, 20),
               deviation_1 |-> Whole(144), deviation_2 |-> Whole(144)]

\* C10 as stated: min_count_of_each_of_two_samples returns
\* error / (delta / region)^2 rounded up with region = z(1 - power) - z(p/2);
\* for delta = -3, power = 0.8, p = 0.05 and both variances 144 it is 251.
C10_AsClaimed ==
    PlanDone =>
        /\ (PlanDelta.n # 0 /\ RegionAsClaimed.n # 0) =>
              /\ ret.kind = "ok"
              /\ IsRoundedUp(ret.v, PlanError, PlanDelta, RegionAsClaimed)
        /\ IsTestPlan => (ret.kind = "ok" /\ ret.v = 251)

\* C10, amended: the region is z(p/2) - z(power); for a difference and a
\* region other than 0 the result is error / (delta / region)^2 rounded up,
\* and the test's inputs give 251.
C10_SampleSize ==
    PlanDone =>
        /\ (PlanDelta.n # 0 /\ RegionOfCode.n # 0) =>
              /\ ret.kind = "ok"
              /\ IsRoundedUp(ret.v, PlanError, PlanDelta, RegionOfCode)
        /\ IsTestPlan => (ret.kind = "ok" /\ ret.v = 251)

\* the test's inputs: region 1.96 + 0.84, 288 / (3 / 2.8)^2 = 250.88
C10_Witness ==
    /\ PlanDone /\ IsTestPlan
    /\ RegionOfCode = Fin(14, 5)
    /\ ret.kind = "ok" /\ ret.v = 251

\* what incomplete_beta_function is handed: the transformed x and a, b
BetaCalled == callee.fn = "incomplete_beta_function"

\* C11: FCdf::p_value of any finite f >= 0 and df_1, df_2 >= 1 passes the
\* unit-interval re-wrap of the transformed x = df_1*f / (df_1*f + df_2),
\* which lies in [0, 1]; for f = 0 that x is 0 and the p-value returned
\* (the ratio of the two integrals being 0) is 1.
C11_TransformInUnitInterval ==
    Done("F_CDF.p_value") =>
        /\ ret.kind # "panic"
        /\ BetaCalled
        /\ IsFinite(callee.x) /\ 0 <= callee.x.n /\ callee.x.n <= callee.x.d
        /\ args.x = Whole(0) =>
              /\ callee.x = Whole(0)
              /\ ret.kind = "ok" => ret.v = Whole(1)

\* the degrees of freedom a t-test is left with, and whether its statistic
\* is finite (the summed variance/count is not 0)
TTestDone == Done("one_sample_mean") \/ Done("difference_of_two_means")
TTestDf ==
    IF op = "one_sample_mean" THEN args.sample.count - 1
    ELSE (IF args.sample_1.count <= args.sample_2.count
          THEN args.sample_1.count ELSE args.sample_2.count) - 1
TTestStandardErrorIsZero ==
    IF op = "one_sample_mean" THEN args.sample.variance.n = 0
    ELSE args.sample_1.variance.n = 0 /\ args.sample_2.variance.n = 0
TLookupCalledWith(df) ==
    callee.fn = "T_SCORE_TABLE.p_value_two_sided" /\ callee.df = df

\* C12 as stated: one_sample_mean uses df = n - 1 and
\* difference_of_two_means df = min(n1, n2) - 1; each aborts without
\* returning a p-value when that df is 0, and for df >= 1 the t lookup is
\* called with exactly that df.
C12_AsClaimed ==
    TTestDone =>
        /\ TTestDf = 0 => (ret.kind = "panic" /\ callee = NoCall)
        /\ TTestDf >= 1 => TLookupCalledWith(TTestDf)

\* C12, amended: each t-test aborts without returning a p-value when its
\* df (n - 1, min(n1, n2) - 1) is 0; when df >= 1 and the statistic is
\* finite the t lookup is called with exactly that df and its p-value is
\* returned; with a standard error of 0 the call aborts before the lookup.
C12_DfCheckedAtCallSite ==
    TTestDone =>
        /\ TTestDf = 0 => (ret.kind = "panic" /\ callee = NoCall)
        /\ (TTestDf >= 1 /\ ~TTestStandardErrorIsZero) =>
              (TLookupCalledWith(TTestDf) /\ ret.kind = "ok")
        /\ TTestStandardErrorIsZero =>
              (ret = Panic("FiniteF64::new") /\ callee = NoCall)
        /\ callee # NoCall => TLookupCalledWith(TTestDf)

\* test_difference_of_two_means: counts 100 and 50, df = 49, t = 1.55,
\* two-sided p-value 0.1
C12_Witness ==
    /\ Done("difference_of_two_means")
    /\ args.sample_1.count = 100 /\ args.sample_2.count = 50
    /\ args.sample_1.mean = Fin(359, 50)
    /\ TLookupCalledWith(49)
    /\ callee.t = 1550
    /\ ret = Ok(1000)

\* degrees of freedom that have a table line
TableDf == { df \in DfValues : df <= 1000 }

\* C13: for a fixed statistic t and degrees of freedom df1 <= df2 within
\* 1..1000 the one-sided p-value of df2 is at most the one of df1, and in
\* every column the critical value of df2's line is at most the one of
\* df1's line.
C13_MonotoneInDf ==
    (Done("p_value_one_sided") /\ args.df <= 1000) =>
        \A df2 \in TableDf :
            args.df <= df2 =>
               LET p2 == p_value_one_sided(df2, args.t).ret
                   line1 == LineOf(args.df)
                   line2 == LineOf(df2)
               IN  /\ p2.kind = "ok" /\ p2.v <= ret.v
                   /\ \A j \in Columns : line2[j] <= line1[j]

\* t = 6.314 is past every critical value of the 1000 row but only past
\* five of row 1
C13_Witness ==
    /\ Done("p_value_one_sided")
    /\ args.df = 1 /\ args.t = 6314
    /\ ret = Ok(250)
    /\ p_value_one_sided(1000, args.t).ret = Ok(0)

====
